---- MODULE Spec2Model ----
(***************************************************************************)
(* Model of the To-do-Automater scheduling core: main() parses the         *)
(* language-model output into task records, schedule_task() turns each     *)
(* record's time field into a delay and arms a threading.Timer (or         *)
(* dispatches synchronously when the time cannot be parsed), and           *)
(* dispatch_task() resolves defaults and calls the executors.              *)
(*                                                                         *)
(* Text values are sequences of one-character strings (or of larger        *)
(* chunks for fixed literals), so that lower(), strptime() and             *)
(* fromisoformat() are computed character by character.                    *)
(***************************************************************************)
EXTENDS Integers, Sequences, FiniteSets, TLC

\* ---------------------------------------------------------------- bounds
MaxTasks == 2
MaxClock == 3

\* Seconds the model clock advances per Tick.
TickSeconds == 60

\* The wall clock at process start (datetime.datetime.now() at clock = 0).
StartNow == [y |-> 2025, m |-> 3, d |-> 15, hh |-> 23, mm |-> 58, ss |-> 0]

\* ------------------------------------------------------------ characters
Digits == <<"0", "1", "2", "3", "4", "5", "6", "7", "8", "9">>

IsDigit(c) == \E n \in 1..10 : Digits[n] = c

DigitVal(c) == (CHOOSE n \in 1..10 : Digits[n] = c) - 1

DigitChar(n) == Digits[n + 1]

AllDigits(s) == \A k \in 1..Len(s) : IsDigit(s[k])

RECURSIVE ToInt(_)
ToInt(s) == IF s = <<>> THEN 0
            ELSE 10 * ToInt(SubSeq(s, 1, Len(s) - 1)) + DigitVal(s[Len(s)])

\* str.lower() on one character (the alphabet of the modelled inputs).
LowerChar(c) ==
    CASE c = "U" -> "u"
      [] c = "N" -> "n"
      [] c = "K" -> "k"
      [] c = "O" -> "o"
      [] c = "W" -> "w"
      [] c = "A" -> "a"
      [] c = "B" -> "b"
      [] OTHER -> c

Lower(s) == [k \in 1..Len(s) |-> LowerChar(s[k])]

Contains(s, c) == \E k \in 1..Len(s) : s[k] = c

\* ----------------------------------------------------------------- dates
IsLeap(y) == (y % 4 = 0) /\ ((y % 100 # 0) \/ (y % 400 = 0))

DaysInMonth(y, m) ==
    IF m = 2 THEN (IF IsLeap(y) THEN 29 ELSE 28)
    ELSE IF m \in {4, 6, 9, 11} THEN 30 ELSE 31

DaysBeforeYear(y) ==
    (y - 1) * 365 + ((y - 1) \div 4) - ((y - 1) \div 100) + ((y - 1) \div 400)

RECURSIVE DaysBeforeMonth(_, _)
DaysBeforeMonth(y, m) ==
    IF m = 1 THEN 0 ELSE DaysBeforeMonth(y, m - 1) + DaysInMonth(y, m - 1)

\* datetime.date.toordinal()
Ordinal(y, m, d) == DaysBeforeYear(y) + DaysBeforeMonth(y, m) + d

\* The day after a calendar date.
NextDay(dt) ==
    IF dt.d < DaysInMonth(dt.y, dt.m) THEN [dt EXCEPT !.d = dt.d + 1]
    ELSE IF dt.m < 12 THEN [dt EXCEPT !.m = dt.m + 1, !.d = 1]
    ELSE [dt EXCEPT !.y = dt.y + 1, !.m = 1, !.d = 1]

RECURSIVE AddDays(_, _)
AddDays(dt, n) == IF n = 0 THEN dt ELSE AddDays(NextDay(dt), n - 1)

\* datetime.datetime.now() when the model clock shows c ticks: a naive
\* local datetime.
NowAt(c) ==
    LET secs == StartNow.hh * 3600 + StartNow.mm * 60 + StartNow.ss
                    + c * TickSeconds
        day  == AddDays(StartNow, secs \div 86400)
        rem  == secs % 86400
    IN  [y |-> day.y, m |-> day.m, d |-> day.d,
         hh |-> rem \div 3600, mm |-> (rem % 3600) \div 60, ss |-> rem % 60,
         aware |-> FALSE]

\* str(today): "YYYY-MM-DD"
FormatDate(dt) ==
    << DigitChar(dt.y \div 1000), DigitChar((dt.y \div 100) % 10),
       DigitChar((dt.y \div 10) % 10), DigitChar(dt.y % 10), "-",
       DigitChar(dt.m \div 10), DigitChar(dt.m % 10), "-",
       DigitChar(dt.d \div 10), DigitChar(dt.d % 10) >>

\* Result of a failed parse (the ValueError / TypeError branch).
ParseFail == [ok |-> FALSE, y |-> 0, m |-> 0, d |-> 0,
              hh |-> 0, mm |-> 0, ss |-> 0, aware |-> FALSE]

ParseOk(y, m, d, hh, mm, ss, aw) ==
    [ok |-> TRUE, y |-> y, m |-> m, d |-> d,
     hh |-> hh, mm |-> mm, ss |-> ss, aware |-> aw]

ValidDate(y, m, d) ==
    /\ y >= 1
    /\ m \in 1..12
    /\ d >= 1
    /\ d <= DaysInMonth(y, m)

\* "YYYY-MM-DD" at the head of a text
DateShape(s) ==
    /\ Len(s) >= 10
    /\ AllDigits(SubSeq(s, 1, 4))
    /\ s[5] = "-"
    /\ AllDigits(SubSeq(s, 6, 7))
    /\ s[8] = "-"
    /\ AllDigits(SubSeq(s, 9, 10))

\* The "%H:%M" tail of strptime: one or two digits up to 23, a colon, one
\* or two digits up to 59, and nothing left over.
ClockShape(r, c) ==
    /\ c \in {2, 3}
    /\ Len(r) \in (c + 1)..(c + 2)
    /\ r[c] = ":"
    /\ AllDigits(SubSeq(r, 1, c - 1))
    /\ AllDigits(SubSeq(r, c + 1, Len(r)))
    /\ ToInt(SubSeq(r, 1, c - 1)) <= 23
    /\ ToInt(SubSeq(r, c + 1, Len(r))) <= 59

\* datetime.datetime.strptime(text, "%Y-%m-%d %H:%M")
Strptime(text) ==
    IF DateShape(text) /\ Len(text) >= 11 /\ text[11] = " "
    THEN LET r  == SubSeq(text, 12, Len(text))
             y  == ToInt(SubSeq(text, 1, 4))
             m  == ToInt(SubSeq(text, 6, 7))
             d  == ToInt(SubSeq(text, 9, 10))
         IN  IF ValidDate(y, m, d) /\ \E c \in {2, 3} : ClockShape(r, c)
             THEN LET c == CHOOSE c \in {2, 3} : ClockShape(r, c)
                  IN  ParseOk(y, m, d, ToInt(SubSeq(r, 1, c - 1)),
                              ToInt(SubSeq(r, c + 1, Len(r))), 0, FALSE)
             ELSE ParseFail
    ELSE ParseFail

\* "HH:MM" at position p of s
IsoClockShape(s, p) ==
    /\ Len(s) >= p + 4
    /\ AllDigits(SubSeq(s, p, p + 1))
    /\ s[p + 2] = ":"
    /\ AllDigits(SubSeq(s, p + 3, p + 4))

\* The UTC offset suffix "+HH:MM" / "-HH:MM" starting at position p
IsoOffsetShape(s, p) ==
    /\ Len(s) = p + 5
    /\ s[p] \in {"+", "-"}
    /\ IsoClockShape(s, p + 1)
    /\ ToInt(SubSeq(s, p + 1, p + 2)) <= 23
    /\ ToInt(SubSeq(s, p + 4, p + 5)) <= 59

\* datetime.datetime.fromisoformat(s) for "YYYY-MM-DD" + separator +
\* "HH:MM" + optional ":SS" + optional UTC offset.  An offset makes the
\* result timezone-aware.
FromIsoFormat(s) ==
    IF DateShape(s) /\ IsoClockShape(s, 12)
    THEN LET y    == ToInt(SubSeq(s, 1, 4))
             m    == ToInt(SubSeq(s, 6, 7))
             d    == ToInt(SubSeq(s, 9, 10))
             hh   == ToInt(SubSeq(s, 12, 13))
             mm   == ToInt(SubSeq(s, 15, 16))
             secs == /\ Len(s) >= 19
                     /\ s[17] = ":"
                     /\ AllDigits(SubSeq(s, 18, 19))
             ss   == IF secs THEN ToInt(SubSeq(s, 18, 19)) ELSE 0
             p    == IF secs THEN 20 ELSE 17
         IN  IF ValidDate(y, m, d) /\ hh <= 23 /\ mm <= 59 /\ ss <= 59
                /\ (Len(s) = p - 1 \/ IsoOffsetShape(s, p))
             THEN ParseOk(y, m, d, hh, mm, ss, Len(s) # p - 1)
             ELSE ParseFail
    ELSE ParseFail

\* (a - b).total_seconds() for two naive datetimes
SecondsBetween(a, b) ==
    (Ordinal(a.y, a.m, a.d) - Ordinal(b.y, b.m, b.d)) * 86400
        + (a.hh - b.hh) * 3600 + (a.mm - b.mm) * 60 + (a.ss - b.ss)

\* ---------------------------------------------------------- JSON values
\* A field of a task record as json.loads leaves it in the dict: absent,
\* null (None), or a string.  An event's start/end may also be an object
\* {"dateTime": v[1], "timeZone": v[2]}.
Absent == [k |-> "absent", v |-> <<>>]

Null == [k |-> "null", v |-> <<>>]

Str(s) == [k |-> "str", v |-> s]

Struct(dateTime, timeZone) == [k |-> "struct", v |-> dateTime \o timeZone]

\* dict.get(key, default)
Get(val, default) == IF val.k = "absent" THEN default ELSE val

\* The "event" field: absent, null, a string, or an object with the keys
\* that are not Absent.
NoEvent == [k |-> "absent", summary |-> Absent, start |-> Absent, end |-> Absent]

NullEvent == [NoEvent EXCEPT !.k = "null"]

StrEvent == [NoEvent EXCEPT !.k = "str"]

DictEvent(summary, start, end) ==
    [k |-> "dict", summary |-> summary, start |-> start, end |-> end]

\* Python truthiness of task.get("event")
Truthy(ev) ==
    \/ ev.k = "str"
    \/ /\ ev.k = "dict"
       /\ \E f \in {"summary", "start", "end"} : ev[f].k # "absent"

\* A task record (a dict); a key the dict lacks is Absent.
EmptyRec ==
    [task_type |-> Absent, time |-> Absent, email |-> Absent,
     subject |-> Absent, message |-> Absent, stock_symbol |-> Absent,
     event |-> NoEvent]

ScalarKeys == {"task_type", "time", "email", "subject", "message", "stock_symbol"}

\* len(dict)
NumKeys(r) ==
    Cardinality({f \in ScalarKeys : r[f].k # "absent"})
        + (IF r.event.k # "absent" THEN 1 ELSE 0)

\* ------------------------------------------------------------- literals
EMAIL_SENDER == Str(<<"example@gmail.com">>)

DefaultZone == <<"America/Los_Angeles">>

TypeEmail == Str(<<"email_reminder">>)

TypeStock == Str(<<"stock_price">>)

TypeCalendar == Str(<<"calendar_invite">>)

TypeOther == Str(<<"frobnicate">>)

\* ------------------------------------------------------ modelled inputs
\* time fields
TimeSoon == Str(<<"2", "3", ":", "5", "9">>)

TimePast == Str(<<"2", "3", ":", "5", "7">>)

TimeEarly == Str(<<"0", ":", "1">>)

TimeBadClock == Str(<<"2", "5", ":", "9", "9">>)

TimeEmpty == Str(<<>>)

TimeWords == Str(<<"T", "B", "D">>)

IsoDate == <<"2", "0", "2", "5", "-", "0", "3", "-", "1", "6">>

TimeIso == Str(IsoDate \o <<"T", "0", "0", ":", "0", "0">>)

TimeIsoSecs == Str(<<"2", "0", "2", "5", "-", "0", "3", "-", "1", "5",
                     "T", "2", "3", ":", "5", "8", ":", "3", "0">>)

TimeIsoBadDay == Str(<<"2", "0", "2", "5", "-", "0", "2", "-", "3", "0",
                       "T", "0", "9", ":", "0", "0">>)

TimeIsoOffset == Str(IsoDate \o <<"T", "0", "0", ":", "0", "0",
                                  "+", "0", "0", ":", "0", "0">>)

AllTimes == {Absent, Null, TimeSoon, TimePast, TimeEarly, TimeBadClock,
             TimeEmpty, TimeWords, TimeIso, TimeIsoSecs, TimeIsoBadDay,
             TimeIsoOffset}

FewTimes == {Absent, TimeSoon, TimeBadClock, TimeIso}

\* email fields
AllEmails == {Absent, Null,
              Str(<<"u", "n", "k", "n", "o", "w", "n">>),
              Str(<<"U", "N", "K", "N", "O", "W", "N">>),
              Str(<<"U", "n", "k", "n", "O", "w", "n">>),
              Str(<<"u", "n", "k", "n", "o", "w">>),
              Str(<<"a", "@", "b">>),
              Str(<<>>)}

AllSubjects == {Absent, Null, Str(<<"Call John">>), Str(<<"Reminder">>)}

AllMessages == {Absent, Str(<<"Remind me to do X">>)}

AllTickers == {Absent, Null, Str(<<"NVDA">>)}

EvStart == <<"2025-03-16T10:00:00">>

EvEnd == <<"2025-03-16T11:00:00">>

AllEvents ==
    {NoEvent, NullEvent, StrEvent,
     DictEvent(Absent, Absent, Absent),
     DictEvent(Str(<<"Standup">>), Str(EvStart), Str(EvEnd)),
     DictEvent(Absent, Str(EvStart), Str(EvEnd)),
     DictEvent(Absent, Str(EvStart), Absent),
     DictEvent(Str(<<"Standup">>), Absent, Absent),
     DictEvent(Str(<<"Standup">>), Struct(EvStart, <<"UTC">>), Str(EvEnd)),
     DictEvent(Str(<<"Standup">>), Struct(EvStart, <<"UTC">>),
               Struct(EvEnd, <<"UTC">>))}

EmailRecords ==
    {[EmptyRec EXCEPT !.task_type = TypeEmail, !.time = t, !.email = e,
                      !.subject = s, !.message = m] :
        t \in FewTimes, e \in AllEmails, s \in AllSubjects, m \in AllMessages}

StockRecords ==
    {[EmptyRec EXCEPT !.task_type = TypeStock, !.time = t, !.email = e,
                      !.subject = s, !.stock_symbol = k] :
        t \in FewTimes, e \in AllEmails, s \in AllSubjects, k \in AllTickers}

CalendarRecords ==
    {[EmptyRec EXCEPT !.task_type = TypeCalendar, !.time = t, !.event = ev] :
        t \in FewTimes, ev \in AllEvents}

TimeRecords ==
    {[EmptyRec EXCEPT !.task_type = ty, !.time = t, !.event = ev] :
        ty \in {TypeEmail, TypeCalendar, TypeOther, Absent, Null},
        t \in AllTimes,
        ev \in {NoEvent, DictEvent(Absent, Str(EvStart), Str(EvEnd))}}

\* The records tried one at a time.
InputRecords == EmailRecords \cup StockRecords \cup CalendarRecords \cup TimeRecords

\* The records combined into longer task lists.
CoreRecords ==
    {[EmptyRec EXCEPT !.task_type = TypeEmail, !.time = TimeSoon,
                      !.email = Str(<<"a", "@", "b">>)],
     [EmptyRec EXCEPT !.task_type = TypeEmail, !.time = TimeBadClock,
                      !.email = Null],
     [EmptyRec EXCEPT !.task_type = TypeEmail, !.time = TimeIsoOffset],
     [EmptyRec EXCEPT !.task_type = TypeStock, !.time = TimeIso],
     [EmptyRec EXCEPT !.task_type = TypeStock],
     [EmptyRec EXCEPT !.task_type = TypeCalendar, !.time = TimeEmpty,
                      !.event = DictEvent(Absent, Str(EvStart), Str(EvEnd))],
     [EmptyRec EXCEPT !.task_type = TypeCalendar, !.time = TimeIso,
                      !.event = DictEvent(Str(<<"Standup">>),
                                          Struct(EvStart, <<"UTC">>),
                                          Struct(EvEnd, <<"UTC">>))],
     [EmptyRec EXCEPT !.task_type = TypeOther, !.time = TimePast]}

\* ------------------------------------------------- language-model output
\* The text returned by call_gemini, as a sequence of lexical tokens.  An
\* object literal is one token carrying the mapping it denotes.
Tok(t) == [tok |-> t, rec |-> EmptyRec]

ObjTok(r) == [tok |-> "obj", rec |-> r]

\* The markdown code fences: three backquotes followed by json, and three
\* backquotes.
FenceOpen == Tok("fence_json")

FenceClose == Tok("fence")

\* A JSON array literal of the given object literals.
RECURSIVE Elements(_)
Elements(recs) ==
    IF recs = <<>> THEN <<>>
    ELSE IF Len(recs) = 1 THEN <<ObjTok(recs[1])>>
    ELSE <<ObjTok(recs[1]), Tok(",")>> \o Elements(Tail(recs))

ArrayText(recs) == <<Tok("[")>> \o Elements(recs) \o <<Tok("]")>>

Fenced(text) == <<FenceOpen>> \o text \o <<FenceClose>>

\* clean_llm_output
clean_llm_output(llm_output) ==
    LET a == IF llm_output # <<>> /\ Head(llm_output) = FenceOpen
             THEN Tail(llm_output) ELSE llm_output
    IN  IF a # <<>> /\ a[Len(a)] = FenceClose
        THEN SubSeq(a, 1, Len(a) - 1) ELSE a

\* Values json.loads can return.  items is what iterating the value
\* yields: the elements of a list, the keys of an object.
DictElem(r) == [k |-> "dict", d |-> r]

ScalarElem(kind) == [k |-> kind, d |-> EmptyRec]

JsonList(items) == [k |-> "list", items |-> items]

JsonScalar(kind) == [k |-> kind, items |-> <<>>]

JsonObject(r) == [k |-> "dict", items |-> [n \in 1..NumKeys(r) |-> ScalarElem("str")]]

IsValueTok(t) == t.tok \in {"obj", "7", "null"}

ElemOf(t) ==
    IF t.tok = "obj" THEN DictElem(t.rec)
    ELSE IF t.tok = "7" THEN ScalarElem("num") ELSE ScalarElem("null")

\* The token sequence between the brackets of a well-formed array.
IsElementList(inner) ==
    \/ inner = <<>>
    \/ /\ Len(inner) % 2 = 1
       /\ \A n \in 1..Len(inner) :
             IF n % 2 = 1 THEN IsValueTok(inner[n]) ELSE inner[n].tok = ","

JsonDecodeError == [ok |-> FALSE, val |-> JsonScalar("null")]

\* json.loads
JsonLoads(text) ==
    IF Len(text) = 1 /\ IsValueTok(text[1])
    THEN [ok |-> TRUE,
          val |-> IF text[1].tok = "obj" THEN JsonObject(text[1].rec)
                  ELSE IF text[1].tok = "7" THEN JsonScalar("num")
                  ELSE JsonScalar("null")]
    ELSE IF /\ Len(text) >= 2
            /\ text[1].tok = "["
            /\ text[Len(text)].tok = "]"
            /\ IsElementList(SubSeq(text, 2, Len(text) - 1))
    THEN LET inner == SubSeq(text, 2, Len(text) - 1)
         IN  [ok |-> TRUE,
              val |-> JsonList([n \in 1..((Len(inner) + 1) \div 2) |->
                                   ElemOf(inner[2 * n - 1])])]
    ELSE JsonDecodeError

\* parse_tasks from the model's raw output on: clean, json.loads, and []
\* on a JSONDecodeError.
parse_tasks(llm_output) ==
    LET r == JsonLoads(clean_llm_output(llm_output))
    IN  IF r.ok THEN r.val ELSE JsonList(<<>>)

ParserLogs(llm_output) ==
    IF JsonLoads(clean_llm_output(llm_output)).ok THEN {}
    ELSE {<<"parser", "invalid_json">>}

\* Task lists of 0..n records of a set.
RECURSIVE SeqsUpTo(_, _)
SeqsUpTo(S, n) ==
    IF n = 0 THEN {<<>>}
    ELSE LET shorter == SeqsUpTo(S, n - 1)
         IN  shorter \cup {Append(q, r) : q \in {x \in shorter : Len(x) = n - 1},
                                          r \in S}

SomeRec == [EmptyRec EXCEPT !.task_type = TypeEmail, !.time = TimeSoon]

\* Outputs that are not a JSON array of objects.
OddOutputs ==
    {<<Tok("oops")>>,
     <<>>,
     <<Tok("["), ObjTok(SomeRec)>>,
     <<Tok("["), ObjTok(SomeRec), ObjTok(SomeRec), Tok("]")>>,
     <<FenceClose, Tok("["), ObjTok(SomeRec), Tok("]"), FenceClose>>,
     <<Tok("7")>>,
     <<Tok("null")>>,
     <<ObjTok(SomeRec)>>,
     <<ObjTok(EmptyRec)>>,
     <<Tok("["), Tok("7"), Tok("]")>>,
     <<Tok("["), ObjTok(SomeRec), Tok(","), Tok("null"), Tok("]")>>,
     <<Tok("["), Tok("null"), Tok(","), ObjTok(SomeRec), Tok("]")>>}

\* The records combined into the longest task lists.
LongRecords ==
    {r \in CoreRecords :
        \/ r.task_type = TypeEmail /\ r.time = TimeSoon
        \/ r.task_type = TypeCalendar /\ r.time = TimeEmpty}

\* Task lists: every list of up to two core records, and every list of up
\* to MaxTasks of the records above.
TaskLists ==
    SeqsUpTo(CoreRecords, IF MaxTasks < 2 THEN MaxTasks ELSE 2)
        \cup SeqsUpTo(LongRecords, MaxTasks)

LlmOutputs ==
    {ArrayText(q) : q \in TaskLists}
        \cup {ArrayText(<<r>>) : r \in InputRecords}
        \cup {Fenced(ArrayText(q)) : q \in SeqsUpTo(CoreRecords, 1)}
        \cup OddOutputs

\* ------------------------------------------------------------- dispatch
\* An executor invocation with the arguments that depend on the record
\* (send_email also gets EMAIL_SENDER and EMAIL_PASSWORD, always the same).
NoCall ==
    [exec |-> "none", recipient |-> Absent, subject |-> Absent,
     message |-> Absent, ticker |-> Absent, event |-> NoEvent]

EmailCall(recipient, subject, message) ==
    [NoCall EXCEPT !.exec = "email", !.recipient = recipient,
                   !.subject = subject, !.message = message]

QuoteCall(ticker) == [NoCall EXCEPT !.exec = "quote", !.ticker = ticker]

CalendarCall(event) == [NoCall EXCEPT !.exec = "calendar", !.event = event]

\* How an f-string renders a value.
Fmt(val) == IF val.k = "str" THEN val.v ELSE <<"None">>

\* ResolveRecipient comparing with "unknown" without lower().
ResolveRecipient_CaseSensitive(task) ==
    LET email == Get(task.email, EMAIL_SENDER)
    IN  IF email.k # "str" THEN [ok |-> FALSE, val |-> email]
        ELSE IF email.v = <<"u", "n", "k", "n", "o", "w", "n">>
             THEN [ok |-> TRUE, val |-> EMAIL_SENDER]
             ELSE [ok |-> TRUE, val |-> email]

\* Lines 47-49 / 60-62: the recipient, or the AttributeError of
\* None.lower().
ResolveRecipient(task) ==
    LET email == Get(task.email, EMAIL_SENDER)
    IN  IF email.k # "str" THEN [ok |-> FALSE, val |-> email]
        ELSE IF Lower(email.v) = <<"u", "n", "k", "n", "o", "w", "n">>
             THEN [ok |-> TRUE, val |-> EMAIL_SENDER]
             ELSE [ok |-> TRUE, val |-> email]

\* Line 50
ResolveReminderSubject(task) == Get(task.subject, Str(<<"Reminder">>))

\* Line 51
ResolveMessage(task) == Get(task.message, Str(<<>>))

\* Line 56
ResolveTicker(task) == Get(task.stock_symbol, Str(<<"AAPL">>))

\* ResolveStockSubject with the fallback of line 50.
ResolveStockSubject_Reminder(task) == Get(task.subject, Str(<<"Reminder">>))

\* Line 58
ResolveStockSubject(task) ==
    Get(task.subject,
        Str(<<"Stock Price Update for ">> \o Fmt(ResolveTicker(task))))

\* Line 59: price is the rendered return value of get_stock_price.
StockMessage(task, price) ==
    Str(<<"The current price for ">> \o Fmt(ResolveTicker(task))
            \o <<" is ">> \o price)

\* The value placed under "dateTime" by lines 74 and 78.
Repr(val) ==
    IF val.k = "str" THEN val.v
    ELSE IF val.k = "struct" THEN <<"{">> \o val.v \o <<"}">>
    ELSE <<"None">>

\* Lines 70-81: the payload handed to create_calendar_invite.
NormalizeEvent(ev) ==
    IF ev.start.k = "str"
    THEN DictEvent(Get(ev.summary, Str(<<"Meeting">>)),
                   Struct(Repr(ev.start), DefaultZone),
                   Struct(Repr(ev.end), DefaultZone))
    ELSE ev

\* dispatch_task from its entry up to its first executor call: where it
\* stops (blocked in an executor, returned, or raised), the call it makes
\* and what it prints.
DispatchEntry(task) ==
    IF task.task_type = TypeEmail
    THEN LET r == ResolveRecipient(task)
         IN  IF r.ok
             THEN [pc |-> "email",
                   calls |-> <<EmailCall(r.val, ResolveReminderSubject(task),
                                         ResolveMessage(task))>>,
                   logs |-> {}]
             ELSE [pc |-> "raised", calls |-> <<>>, logs |-> {}]
    ELSE IF task.task_type = TypeStock
    THEN [pc |-> "quote", calls |-> <<QuoteCall(ResolveTicker(task))>>,
          logs |-> {}]
    ELSE IF task.task_type = TypeCalendar
    THEN IF ~Truthy(task.event)
         THEN [pc |-> "returned", calls |-> <<>>, logs |-> {"no_event"}]
         ELSE IF task.event.k # "dict"
         THEN [pc |-> "raised", calls |-> <<>>, logs |-> {}]
         ELSE [pc |-> "calendar",
               calls |-> <<CalendarCall(NormalizeEvent(task.event))>>,
               logs |-> {}]
    ELSE [pc |-> "returned", calls |-> <<>>, logs |-> {"unknown_type"}]

\* Outcomes of get_stock_price: a price, the sentinel, or an exception
\* from the quote library.
QuoteOutcomes == {"price", "unavailable", "raise"}

PriceText(out) ==
    IF out = "price" THEN <<"120.5">> ELSE <<"Price not available">>

\* dispatch_task from the return of get_stock_price (lines 58-63) up to
\* the email executor call.
DispatchAfterQuote(task, out) ==
    IF out = "raise" THEN [pc |-> "raised", calls |-> <<>>, logs |-> {}]
    ELSE LET r == ResolveRecipient(task)
         IN  IF r.ok
             THEN [pc |-> "email",
                   calls |-> <<EmailCall(r.val, ResolveStockSubject(task),
                                         StockMessage(task, PriceText(out)))>>,
                   logs |-> {}]
             ELSE [pc |-> "raised", calls |-> <<>>, logs |-> {}]

\* send_email catches every exception and returns.
EmailOutcomes == {"sent", "failed"}

\* create_calendar_invite returns or lets the API / credential error out.
CalendarOutcomes == {"created", "raise"}

\* ------------------------------------------------------------ scheduling
\* Lines 116-126: the time field turned into a datetime, or the failure
\* the except clause catches.
ParseTime(task, now) ==
    LET task_time_str == Get(task.time, Str(<<>>))
    IN  IF task_time_str.k # "str" THEN ParseFail
        ELSE IF Contains(task_time_str.v, "T")
             THEN FromIsoFormat(task_time_str.v)
             ELSE Strptime(FormatDate(now) \o <<" ">> \o task_time_str.v)

\* ComputeDelay without the clamp of lines 139-140.
ComputeDelay_NoClamp(task, scheduled_time, now) ==
    IF task.task_type = TypeCalendar THEN 0
    ELSE SecondsBetween(scheduled_time, now)

\* Lines 133-140
ComputeDelay(task, scheduled_time, now) ==
    LET delay == SecondsBetween(scheduled_time, now)
    IN  IF task.task_type = TypeCalendar THEN 0
        ELSE IF delay < 0 THEN 0 ELSE delay

\* SchedulePlan with the except clause arming a zero-delay timer instead
\* of calling dispatch_task.
SchedulePlan_TimerOnFailure(task, now) ==
    LET p == ParseTime(task, now)
    IN  IF ~p.ok THEN [kind |-> "timer", parsed |-> p, delay |-> 0]
        ELSE IF p.aware THEN [kind |-> "raise", parsed |-> p, delay |-> 0]
        ELSE [kind |-> "timer", parsed |-> p,
              delay |-> ComputeDelay(task, p, now)]

\* What schedule_task does with a record when the clock reads now:
\* dispatch it synchronously (lines 127-130), raise out of line 133
\* (aware minus naive datetime), or arm a timer (line 143).
SchedulePlan(task, now) ==
    LET p == ParseTime(task, now)
    IN  IF ~p.ok THEN [kind |-> "dispatch", parsed |-> p, delay |-> 0]
        ELSE IF p.aware THEN [kind |-> "raise", parsed |-> p, delay |-> 0]
        ELSE [kind |-> "timer", parsed |-> p,
              delay |-> ComputeDelay(task, p, now)]

\* ----------------------------------------------------------------- state
VARIABLES
    llm,      \* the raw text call_gemini returned
    tasks,    \* main's tasks: what parse_tasks returned
    mainPc,   \* where the main thread is
    next,     \* index of the for loop's current / next element
    clock,    \* ticks of wall-clock time since the process started
    sched,    \* per element: how far schedule_task got, its now and plan
    timer,    \* per element: the threading.Timer started for it
    disp,     \* per element: the dispatch_task invocation on it
    nDisp,    \* per element: number of dispatch_task invocations started
    calls,    \* per element: executor invocations made for it, in order
    log       \* diagnostics printed

vars == <<llm, tasks, mainPc, next, clock, sched, timer, disp, nDisp, calls, log>>

Idx == 1..MaxTasks

NoPlan == [kind |-> "none", parsed |-> ParseFail, delay |-> 0]

NoSched == [st |-> "none", now |-> 0, plan |-> NoPlan]

NoTimer == [st |-> "none", delay |-> 0, due |-> 0]

NoDisp == [pc |-> "none", ctx |-> "none"]

Logged(tag, i) == [tag |-> tag, rec |-> i]

Iterable(v) == v.k \in {"list", "dict"}

\* The record at position i of the task list.
Task(i) == tasks.items[i].d

Init ==
    /\ llm \in LlmOutputs
    /\ tasks = JsonList(<<>>)
    /\ mainPc = "start"
    /\ next = 1
    /\ clock = 0
    /\ sched = [i \in Idx |-> NoSched]
    /\ timer = [i \in Idx |-> NoTimer]
    /\ disp = [i \in Idx |-> NoDisp]
    /\ nDisp = [i \in Idx |-> 0]
    /\ calls = [i \in Idx |-> <<>>]
    /\ log = {}

\* main, lines 171-176: read the file, parse_tasks, pretty_print_tasks.
ParseTasks ==
    /\ mainPc = "start"
    /\ tasks' = parse_tasks(llm)
    /\ log' = log \cup {Logged(t[2], 0) : t \in ParserLogs(llm)}
    /\ mainPc' = "for"
    /\ UNCHANGED <<llm, next, clock, sched, timer, disp, nDisp, calls>>

\* main, line 179 on a value that cannot be iterated: TypeError.
MainIterFail ==
    /\ mainPc = "for"
    /\ ~Iterable(tasks)
    /\ mainPc' = "crashed"
    /\ UNCHANGED <<llm, tasks, next, clock, sched, timer, disp, nDisp, calls, log>>

\* main, lines 179-183: the for loop is exhausted.
MainLoopDone ==
    /\ mainPc = "for"
    /\ Iterable(tasks)
    /\ next > Len(tasks.items)
    /\ mainPc' = "idle"
    /\ UNCHANGED <<llm, tasks, next, clock, sched, timer, disp, nDisp, calls, log>>

\* schedule_task, line 116, on an element that is not a dict:
\* AttributeError out of schedule_task and out of main.
ScheduleNonRecord(i) ==
    /\ mainPc = "for"
    /\ Iterable(tasks)
    /\ i = next
    /\ i <= Len(tasks.items)
    /\ tasks.items[i].k # "dict"
    /\ sched' = [sched EXCEPT ![i] = [NoSched EXCEPT !.st = "raised", !.now = clock]]
    /\ mainPc' = "crashed"
    /\ UNCHANGED <<llm, tasks, next, clock, timer, disp, nDisp, calls, log>>

\* schedule_task, lines 116-126: read the time field and the clock, parse.
ScheduleEnter(i) ==
    /\ mainPc = "for"
    /\ Iterable(tasks)
    /\ i = next
    /\ i <= Len(tasks.items)
    /\ tasks.items[i].k = "dict"
    /\ sched' = [sched EXCEPT ![i] =
                    [st |-> "entered", now |-> clock,
                     plan |-> SchedulePlan(Task(i), NowAt(clock))]]
    /\ mainPc' = "sched"
    /\ UNCHANGED <<llm, tasks, next, clock, timer, disp, nDisp, calls, log>>

\* The main thread after a synchronous dispatch_task stopped at pc.
MainAfterDispatch(pc) ==
    IF pc = "raised" THEN "crashed"
    ELSE IF pc = "returned" THEN "for" ELSE "dispatch"

\* schedule_task, lines 127-130: the parse failed; print, call
\* dispatch_task on the record in the main thread, return.
ScheduleRecover(i) ==
    /\ mainPc = "sched"
    /\ i = next
    /\ sched[i].plan.kind = "dispatch"
    /\ LET e == DispatchEntry(Task(i))
       IN  /\ disp' = [disp EXCEPT ![i] = [pc |-> e.pc, ctx |-> "main"]]
           /\ nDisp' = [nDisp EXCEPT ![i] = @ + 1]
           /\ calls' = [calls EXCEPT ![i] = @ \o e.calls]
           /\ log' = log \cup {Logged("time_parse_error", i)}
                         \cup {Logged(t, i) : t \in e.logs}
           /\ mainPc' = MainAfterDispatch(e.pc)
           /\ next' = IF e.pc = "returned" THEN next + 1 ELSE next
    /\ sched' = [sched EXCEPT ![i].st = "recovered"]
    /\ UNCHANGED <<llm, tasks, clock, timer>>

\* schedule_task, line 133 on a timezone-aware scheduled_time: TypeError
\* out of schedule_task and out of main.
ScheduleDelayFail(i) ==
    /\ mainPc = "sched"
    /\ i = next
    /\ sched[i].plan.kind = "raise"
    /\ sched' = [sched EXCEPT ![i].st = "raised"]
    /\ mainPc' = "crashed"
    /\ UNCHANGED <<llm, tasks, next, clock, timer, disp, nDisp, calls, log>>

\* schedule_task, lines 133-143: compute the delay, start the Timer.
ScheduleArm(i) ==
    /\ mainPc = "sched"
    /\ i = next
    /\ sched[i].plan.kind = "timer"
    /\ timer' = [timer EXCEPT ![i] =
                    [st |-> "pending", delay |-> sched[i].plan.delay,
                     due |-> clock * TickSeconds + sched[i].plan.delay]]
    /\ sched' = [sched EXCEPT ![i].st = "armed"]
    /\ mainPc' = "for"
    /\ next' = next + 1
    /\ UNCHANGED <<llm, tasks, clock, disp, nDisp, calls, log>>

\* The Timer thread of element i wakes up and calls dispatch_task.  Timer
\* threads are not daemon threads: they run whatever the main thread did.
TimerFire(i) ==
    /\ timer[i].st = "pending"
    /\ clock * TickSeconds >= timer[i].due
    /\ timer' = [timer EXCEPT ![i].st = "fired"]
    /\ LET e == DispatchEntry(Task(i))
       IN  /\ disp' = [disp EXCEPT ![i] = [pc |-> e.pc, ctx |-> "timer"]]
           /\ nDisp' = [nDisp EXCEPT ![i] = @ + 1]
           /\ calls' = [calls EXCEPT ![i] = @ \o e.calls]
           /\ log' = log \cup {Logged(t, i) : t \in e.logs}
    /\ UNCHANGED <<llm, tasks, mainPc, next, clock, sched>>

\* The main thread when the dispatch_task it runs synchronously for
\* element i moves to pc; a dispatch on a Timer thread leaves it alone.
MainMoves(i, pc) ==
    IF disp[i].ctx = "main"
    THEN /\ mainPc' = MainAfterDispatch(pc)
         /\ next' = IF pc = "returned" THEN next + 1 ELSE next
    ELSE UNCHANGED <<mainPc, next>>

\* get_stock_price returns or raises; dispatch_task goes on to line 63.
QuoteReturn(i, out) ==
    /\ disp[i].pc = "quote"
    /\ LET e == DispatchAfterQuote(Task(i), out)
       IN  /\ disp' = [disp EXCEPT ![i].pc = e.pc]
           /\ calls' = [calls EXCEPT ![i] = @ \o e.calls]
           /\ MainMoves(i, e.pc)
    /\ UNCHANGED <<llm, tasks, clock, sched, timer, nDisp, log>>

\* send_email returns (it catches its own failures); dispatch_task returns.
EmailReturn(i, out) ==
    /\ disp[i].pc = "email"
    /\ disp' = [disp EXCEPT ![i].pc = "returned"]
    /\ log' = IF out = "failed" THEN log \cup {Logged("email_failed", i)} ELSE log
    /\ MainMoves(i, "returned")
    /\ UNCHANGED <<llm, tasks, clock, sched, timer, nDisp, calls>>

\* create_calendar_invite returns or raises; dispatch_task does the same.
CalendarReturn(i, out) ==
    /\ disp[i].pc = "calendar"
    /\ LET pc == IF out = "raise" THEN "raised" ELSE "returned"
       IN  /\ disp' = [disp EXCEPT ![i].pc = pc]
           /\ MainMoves(i, pc)
    /\ UNCHANGED <<llm, tasks, clock, sched, timer, nDisp, calls, log>>

\* main, lines 184-188: KeyboardInterrupt in the sleep loop; main prints
\* its shutdown message and returns.  No Timer is cancelled, and the
\* interpreter joins the Timer threads before the process ends, so
\* TimerFire stays enabled.  (An interrupt before the sleep loop, a failing
\* call_gemini and a missing todo.txt end main before any record is
\* looked at and are not modelled.)
Interrupt ==
    /\ mainPc = "idle"
    /\ mainPc' = "exited"
    /\ UNCHANGED <<llm, tasks, next, clock, sched, timer, disp, nDisp, calls, log>>

\* Wall-clock time passes.
Tick ==
    /\ clock < MaxClock
    /\ clock' = clock + 1
    /\ UNCHANGED <<llm, tasks, mainPc, next, sched, timer, disp, nDisp, calls, log>>

Next ==
    \/ ParseTasks
    \/ MainIterFail
    \/ MainLoopDone
    \/ \E i \in Idx : ScheduleNonRecord(i)
    \/ \E i \in Idx : ScheduleEnter(i)
    \/ \E i \in Idx : ScheduleRecover(i)
    \/ \E i \in Idx : ScheduleDelayFail(i)
    \/ \E i \in Idx : ScheduleArm(i)
    \/ \E i \in Idx : TimerFire(i)
    \/ \E i \in Idx, out \in QuoteOutcomes : QuoteReturn(i, out)
    \/ \E i \in Idx, out \in EmailOutcomes : EmailReturn(i, out)
    \/ \E i \in Idx, out \in CalendarOutcomes : CalendarReturn(i, out)
    \/ Interrupt
    \/ Tick

Spec == Init /\ [][Next]_vars

\* ---------------------------------------------------------------- claims
\* The task list is a JSON array of objects.
IsTaskList(v) ==
    /\ v.k = "list"
    /\ \A n \in 1..Len(v.items) : v.items[n].k = "dict"

\* Element i is a task record that schedule_task has been called on and
\* has left (by returning, by blocking in a synchronous dispatch, or by
\* raising).
Handled(i) ==
    /\ sched[i].st \in {"recovered", "armed", "raised"}
    /\ tasks.items[i].k = "dict"

PendingTimers(i) == IF timer[i].st = "pending" THEN 1 ELSE 0

\* C1: failure isolation.  For a list of task records, no failure while
\* scheduling or executing one record aborts the main flow, so that every
\* later record is still scheduled: the main thread never ends in an
\* uncaught exception.
C1_FailureIsolation ==
    IsTaskList(tasks) => mainPc # "crashed"

\* C2: a record whose time field is absent, empty or unparsable is handed
\* to dispatch_task by schedule_task itself (in the main thread, before
\* schedule_task returns), exactly once, and no timer is armed for it.
C2_UnparsableTimeDispatchedAtOnce ==
    \A i \in Idx :
        (Handled(i) /\ ~sched[i].plan.parsed.ok)
            => /\ nDisp[i] = 1
               /\ disp[i].ctx = "main"
               /\ timer[i].st = "none"

\* C2 witness: schedule_task returned after dispatching a record with a
\* malformed clock time synchronously.
C2_Witness ==
    \E i \in Idx :
        /\ Handled(i)
        /\ Task(i).time = TimeBadClock
        /\ sched[i].st = "recovered"
        /\ nDisp[i] = 1
        /\ disp[i].pc = "returned"
        /\ mainPc = "for"
        /\ next > i

\* C3: for every task record passed to schedule_task exactly one
\* dispatch_task invocation is arranged: pending timers plus started
\* dispatches is exactly 1.
C3_ExactlyOnceArming ==
    \A i \in Idx :
        Handled(i) => PendingTimers(i) + nDisp[i] = 1

\* C4: the delay of every armed timer is 0 for a calendar_invite, else 0
\* when the parsed fire instant lies before the now read at scheduling,
\* else fire instant minus now; it is never negative.
C4_DelayComputation ==
    \A i \in Idx :
        timer[i].st # "none" =>
            LET t == sched[i].plan.parsed
                d == SecondsBetween(t, NowAt(sched[i].now))
            IN  /\ t.ok
                /\ timer[i].delay >= 0
                /\ timer[i].delay =
                      (IF Task(i).task_type = TypeCalendar THEN 0
                       ELSE IF d < 0 THEN 0 ELSE d)

\* C4 witness: a timer armed with a positive delay next to a
\* calendar_invite timer armed with delay 0 although its time is ahead.
C4_Witness ==
    \E i, j \in Idx :
        /\ timer[i].st # "none"
        /\ timer[i].delay > 0
        /\ timer[j].st # "none"
        /\ Task(j).task_type = TypeCalendar
        /\ SecondsBetween(sched[j].plan.parsed, NowAt(sched[j].now)) > 0
        /\ timer[j].delay = 0

\* C5: once the operator interrupt has been delivered to the main loop, no
\* dispatch_task invocation is started any more.
C5_InterruptCancelsPending ==
    [][mainPc = "exited" => nDisp' = nDisp]_vars

\* A dispatch_task invocation on element i is inside an executor call.
Blocked(i) == disp[i].pc \in {"quote", "email", "calendar"}

\* A step of the main thread on its way through the for loop.
MainStep ==
    \/ MainLoopDone
    \/ \E j \in Idx : ScheduleNonRecord(j)
    \/ \E j \in Idx : ScheduleEnter(j)
    \/ \E j \in Idx : ScheduleRecover(j)
    \/ \E j \in Idx : ScheduleDelayFail(j)
    \/ \E j \in Idx : ScheduleArm(j)

\* Element j has not been armed or dispatched yet.
Unscheduled(j) ==
    /\ j <= Len(tasks.items)
    /\ sched[j].st \in {"none", "entered"}

\* C6: while a dispatch_task invocation is blocked inside an executor,
\* every other task can still be scheduled (the main thread can take its
\* next scheduling step) and every other due timer can still fire.
C6_NonInterference ==
    \A i \in Idx :
        (Blocked(i) /\ mainPc \notin {"start", "crashed"}) =>
            /\ (\E j \in Idx : j # i /\ Unscheduled(j)) => ENABLED MainStep
            /\ \A j \in Idx :
                  (j # i /\ timer[j].st = "pending"
                         /\ clock * TickSeconds >= timer[j].due)
                      => ENABLED TimerFire(j)

\* The model's output denotes a JSON array of objects.
WellFormedOutput ==
    LET r == JsonLoads(clean_llm_output(llm))
    IN  r.ok /\ IsTaskList(r.val)

\* C7: when the language-model output is not a well-formed sequence of
\* task records, parse_tasks yields zero tasks, the condition is logged,
\* nothing is scheduled and the main thread does not crash.
C7_ParserRecovery ==
    (mainPc # "start" /\ ~WellFormedOutput) =>
        /\ tasks = JsonList(<<>>)
        /\ Logged("invalid_json", 0) \in log
        /\ mainPc # "crashed"
        /\ \A i \in Idx : sched[i].st = "none"

\* The executors invoked for element i, in order.
Execs(i) == [n \in 1..Len(calls[i]) |-> calls[i][n].exec]

\* C8: dispatch_task returns normally for every record, invokes no
\* executor for a task_type other than the three known ones, and only the
\* type's own executors otherwise.
C8_DispatchTotal ==
    \A i \in Idx :
        nDisp[i] > 0 =>
            /\ disp[i].pc # "raised"
            /\ Execs(i) \in
                  (IF Task(i).task_type = TypeEmail THEN {<<>>, <<"email">>}
                   ELSE IF Task(i).task_type = TypeStock
                        THEN {<<>>, <<"quote">>, <<"quote", "email">>}
                   ELSE IF Task(i).task_type = TypeCalendar
                        THEN {<<>>, <<"calendar">>}
                   ELSE {<<>>})

\* "unknown" in any letter case.
IsUnknownAnyCase(s) ==
    /\ Len(s) = 7
    /\ s[1] \in {"u", "U"}
    /\ s[2] \in {"n", "N"}
    /\ s[3] \in {"k", "K"}
    /\ s[4] \in {"n", "N"}
    /\ s[5] \in {"o", "O"}
    /\ s[6] \in {"w", "W"}
    /\ s[7] \in {"n", "N"}

\* C9: the recipient passed to the email executor is the operator's
\* address when the record's email is absent or "unknown" in any letter
\* case, and the record's own email otherwise.
C9_RecipientDefaulting ==
    \A i \in Idx : \A n \in 1..Len(calls[i]) :
        calls[i][n].exec = "email" =>
            calls[i][n].recipient =
                (IF \/ Task(i).email.k = "absent"
                    \/ /\ Task(i).email.k = "str"
                       /\ IsUnknownAnyCase(Task(i).email.v)
                 THEN EMAIL_SENDER
                 ELSE Task(i).email)

\* C9 witness: a stock_price record whose email is "Unknown" in mixed case
\* was mailed to the operator's address.
C9_Witness ==
    \E i \in Idx : \E n \in 1..Len(calls[i]) :
        /\ Task(i).task_type = TypeStock
        /\ Task(i).email = Str(<<"U", "n", "k", "n", "O", "w", "n">>)
        /\ calls[i][n].exec = "email"
        /\ calls[i][n].recipient = EMAIL_SENDER

ShownTicker(task) ==
    IF task.stock_symbol.k = "absent" THEN <<"AAPL">>
    ELSE IF task.stock_symbol.k = "null" THEN <<"None">>
    ELSE task.stock_symbol.v

Wrapped(val) == [k |-> "struct", v |-> val.v \o <<"America/Los_Angeles">>]

\* C11: whenever the calendar executor is invoked for a calendar_invite
\* record, each of start and end that the record gave as a plain string
\* arrives as an object whose dateTime is that string and whose timeZone is
\* the default zone; no plain-string start or end is handed over; and the
\* task record is the one parse_tasks returned.
C11_CalendarPayloadNormalized ==
    \A i \in Idx : \A n \in 1..Len(calls[i]) :
        calls[i][n].exec = "calendar" =>
            /\ \A f \in {"start", "end"} :
                  /\ calls[i][n].event[f].k # "str"
                  /\ Task(i).event[f].k = "str"
                        => calls[i][n].event[f] = Wrapped(Task(i).event[f])
            /\ tasks = parse_tasks(llm)

\* Timer threads get to run and wall-clock time advances: every Timer
\* whose delay has elapsed is eventually served.
FairSpec == Spec /\ WF_vars(Tick) /\ \A i \in Idx : WF_vars(TimerFire(i))

\* schedule_task has been called on record i, a non-calendar record whose
\* time parsed to a fire instant later than the now it read.  (For a time
\* with a UTC offset the process's zone is taken to be UTC, so that the
\* aware instant and the naive now are compared field by field.)
FiresLater(i) ==
    /\ Handled(i)
    /\ Task(i).task_type # TypeCalendar
    /\ sched[i].plan.parsed.ok
    /\ SecondsBetween(sched[i].plan.parsed, NowAt(sched[i].now)) > 0

\* No dispatch_task invocation on a record of FiresLater has started while
\* the clock is still before the record's fire instant.
NoEarlyFiring ==
    \A i \in Idx :
        (FiresLater(i) /\ nDisp[i] > 0)
            => SecondsBetween(sched[i].plan.parsed, NowAt(clock)) <= 0

\* A record of FiresLater whose Timer was started is dispatched, when
\* timers are fairly served, once the Timer's delay has elapsed.  The delay
\* runs from line 143, not from the now of line 117, so the Timer is due
\* at or after the fire instant; the clock of the model stops at MaxClock,
\* hence the property starts where the Timer is due.
ArmedTimersFire ==
    \A i \in Idx :
        (FiresLater(i) /\ timer[i].st = "pending"
            /\ clock * TickSeconds >= timer[i].due)
                ~> (nDisp[i] > 0)

\* C12: for every non-calendar record whose time parses to a fire instant
\* later than the instant schedule_task read, dispatch_task is not invoked
\* on it before that instant, and once schedule_task is done with the
\* record its invocation is in place to happen at the fire instant: a
\* Timer has been started for it (pending, or already fired).
C12_NoEarlyEventualFiring ==
    \A i \in Idx :
        FiresLater(i) =>
            /\ nDisp[i] > 0
                  => SecondsBetween(sched[i].plan.parsed, NowAt(clock)) <= 0
            /\ timer[i].st \in {"pending", "fired"}

====
